---- MODULE Spec2Model ----
(***************************************************************************)
(* The input-to-state reduction pipeline of the virtual joystick:          *)
(* update_input, the three behaviour stages, update_action,                *)
(* update_fire_events and update_ui (src/src/systems.rs) over              *)
(* VirtualJoystickState and TouchState (src/src/components.rs).            *)
(*                                                                         *)
(* A Vec2 is a pair <<x, y>> of integers.  An Option is a sequence of      *)
(* length at most one: <<>> is None and <<v>> is Some(v).  delta, whose    *)
(* range is [-1, 1], is kept in hundredths (One stands for 1.0).           *)
(***************************************************************************)
EXTENDS Integers, Sequences, FiniteSets, TLC

VARIABLES
    pc,           \* the system that runs next in the current tick
    state,        \* entity -> VirtualJoystickState
    interaction,  \* entity -> the Interaction component update_input read in this tick
    touches,      \* Res<Touches> of this tick: the pressed touches, in iteration order
    window,       \* Query<&Window, With<PrimaryWindow>> of this tick: Option<Window>
    prev_touch,   \* entity -> whether a TouchState existed when the tick began
    calls,        \* the action callbacks update_action made in this tick
    events,       \* the events update_fire_events sent in this tick
    tally,        \* entity -> callbacks and events counted over the engagement
    children,     \* entity -> its Children: the child visuals, in order
    styles        \* entity -> the Node (style) of each child, in the same order

vars == <<pc, state, interaction, touches, window, prev_touch, calls, events, tally,
          children, styles>>

\* the visuals of the joysticks
ui == <<children, styles>>

----------------------------------------------------------------------------
(* Bounds of the model *)

\* the largest number of pressed touches in one tick
MaxTouches == 2

\* the engagement counters saturate here
MaxCount == 3

\* the largest number of child visuals of a joystick
MaxChildren == 2

----------------------------------------------------------------------------
(* Vec2, Rect and Option *)

\* 1.0 in the fixed-point representation of delta
One == 100

Vec2Zero == <<0, 0>>

VAdd(a, b) == <<a[1] + b[1], a[2] + b[2]>>

VSub(a, b) == <<a[1] - b[1], a[2] - b[2]>>

VHalf(a) == <<a[1] \div 2, a[2] \div 2>>

RectFromCenterSize(center, size) ==
    [min |-> VSub(center, VHalf(size)), max |-> VAdd(center, VHalf(size))]

RectContains(r, p) ==
    /\ p[1] >= r.min[1] /\ p[2] >= r.min[2]
    /\ p[1] <= r.max[1] /\ p[2] <= r.max[2]

NoneOpt == <<>>

Some(v) == <<v>>

IsSome(o) == o # <<>>

Unwrap(o) == o[1]

----------------------------------------------------------------------------
(* The scene: the entities, their geometry and the inputs of a tick *)

\* query iteration order over the joystick entities
EntityOrder == <<"A", "B">>

\* GlobalTransform.translation().xy() of each joystick
Translation(e) == IF e = "A" THEN <<0, 0>> ELSE <<50, 0>>

\* ComputedNode.size() of each joystick
NodeSize(e) == <<100, 100>>

\* half of the rendered size of the background visual
BaseHalfSize == <<50, 50>>

\* the screen positions a touch or the cursor can be at: inside the rectangle
\* of A and outside it
Points == {<<10, 0>>, <<60, 20>>}

\* the ids of the touches; 0 is also the id of the synthesized mouse pointer
TouchIds == 0..(MaxTouches - 1)

Interactions == {"Pressed", "Hovered", "None"}

TouchSamples == [id : TouchIds, start_position : Points, position : Points]

RECURSIVE DistinctIds(_)
DistinctIds(ts) ==
    IF Len(ts) <= 1 THEN TRUE
    ELSE /\ \A k \in 2..Len(ts) : ts[k].id # ts[1].id
         /\ DistinctIds(Tail(ts))

RECURSIVE SeqsUpTo(_, _)
SeqsUpTo(S, n) ==
    IF n = 0 THEN {<<>>}
    ELSE LET shorter == SeqsUpTo(S, n - 1)
         IN shorter \cup {Append(s, x) : s \in {t \in shorter : Len(t) = n - 1}, x \in S}

\* the snapshots of Touches: pressed touches have distinct ids
TouchLists == {ts \in SeqsUpTo(TouchSamples, MaxTouches) : DistinctIds(ts)}

\* no primary window, or one whose cursor is outside it or at a point
Windows ==
    {NoneOpt} \cup {Some([cursor_position |-> c]) : c \in {NoneOpt} \cup {Some(p) : p \in Points}}

Entities(st) == SelectSeq(EntityOrder, LAMBDA e : e \in DOMAIN st)

----------------------------------------------------------------------------
(* components.rs *)

DefaultState ==
    [touch_state |-> NoneOpt, just_released |-> FALSE,
     base_offset |-> Vec2Zero, delta |-> Vec2Zero]

NewTouchState(id, start, is_mouse) ==
    [id |-> id, is_mouse |-> is_mouse, start |-> start, current |-> start,
     just_pressed |-> TRUE]

----------------------------------------------------------------------------
(* update_input *)

\* a search that tests the live position of a touch, not its origin
RECURSIVE FindTouchByPosition(_, _)
FindTouchByPosition(ts, rect) ==
    IF ts = <<>> THEN NoneOpt
    ELSE IF RectContains(rect, Head(ts).position) THEN Some(Head(ts))
    ELSE FindTouchByPosition(Tail(ts), rect)

\* touches.iter().find(|touch| rect.contains(touch.start_position()))
RECURSIVE FindTouch(_, _)
FindTouch(ts, rect) ==
    IF ts = <<>> THEN NoneOpt
    ELSE IF RectContains(rect, Head(ts).start_position) THEN Some(Head(ts))
    ELSE FindTouch(Tail(ts), rect)

\* touches.get_pressed(id)
GetPressed(ts, id) ==
    LET hits == SelectSeq(ts, LAMBDA t : t.id = id)
    IN IF hits = <<>> THEN NoneOpt ELSE Some(Head(hits))

\* the fallback of the acquisition: q_windows.single() panics without a window
SynthesizedStart(win, center) ==
    IF ~IsSome(win) THEN [panic |-> TRUE, at |-> center]
    ELSE IF IsSome(Unwrap(win).cursor_position)
         THEN [panic |-> FALSE, at |-> Unwrap(Unwrap(win).cursor_position)]
    ELSE [panic |-> FALSE, at |-> center]

\* the let-else branch: no TouchState, the instance is pressed
Acquire(js, center, rect, ts, win) ==
    LET input == FindTouch(ts, rect)
        is_mouse == ~IsSome(input)
        fallback == SynthesizedStart(win, center)
    IN IF ~is_mouse
       THEN [panic |-> FALSE,
             js |-> [js EXCEPT !.touch_state =
                        Some(NewTouchState(Unwrap(input).id, Unwrap(input).position, FALSE))]]
       ELSE IF fallback.panic THEN [panic |-> TRUE, js |-> js]
       ELSE [panic |-> FALSE,
             js |-> [js EXCEPT !.touch_state = Some(NewTouchState(0, fallback.at, TRUE))]]

\* a pass that leaves the press edge set
KeepJustPressed(t) == t

\* touch_state.just_pressed = false
ClearJustPressed(t) == [t EXCEPT !.just_pressed = FALSE]

\* the interaction signal that ends an engagement
Disengaged(inter) == inter # "Pressed"

\* joystick_state.touch_state = None; joystick_state.just_released = true
Release(js) == [js EXCEPT !.touch_state = NoneOpt, !.just_released = TRUE]

\* a position update that binds a touch-tracked TouchState to the first pressed touch
MoveTouchRebind(t, ts, win) ==
    IF t.is_mouse
    THEN IF ~IsSome(win) THEN [panic |-> TRUE, t |-> t]
         ELSE IF IsSome(Unwrap(win).cursor_position)
              THEN [panic |-> FALSE,
                    t |-> [t EXCEPT !.current = Unwrap(Unwrap(win).cursor_position)]]
         ELSE [panic |-> FALSE, t |-> t]
    ELSE IF ts # <<>>
         THEN [panic |-> FALSE,
               t |-> [t EXCEPT !.id = Head(ts).id, !.current = Head(ts).position]]
    ELSE [panic |-> FALSE, t |-> t]

\* a position update that falls back to the zero vector when the pointer is gone
MoveTouchZeroOnMiss(t, ts, win) ==
    IF t.is_mouse
    THEN IF ~IsSome(win) THEN [panic |-> TRUE, t |-> t]
         ELSE IF IsSome(Unwrap(win).cursor_position)
              THEN [panic |-> FALSE,
                    t |-> [t EXCEPT !.current = Unwrap(Unwrap(win).cursor_position)]]
         ELSE [panic |-> FALSE, t |-> [t EXCEPT !.current = Vec2Zero]]
    ELSE LET touch == GetPressed(ts, t.id)
         IN IF IsSome(touch)
            THEN [panic |-> FALSE, t |-> [t EXCEPT !.current = Unwrap(touch).position]]
            ELSE [panic |-> FALSE, t |-> [t EXCEPT !.current = Vec2Zero]]

\* the position update of a live TouchState
MoveTouch(t, ts, win) ==
    IF t.is_mouse
    THEN IF ~IsSome(win) THEN [panic |-> TRUE, t |-> t]
         ELSE IF IsSome(Unwrap(win).cursor_position)
              THEN [panic |-> FALSE,
                    t |-> [t EXCEPT !.current = Unwrap(Unwrap(win).cursor_position)]]
         ELSE [panic |-> FALSE, t |-> t]
    ELSE LET touch == GetPressed(ts, t.id)
         IN IF IsSome(touch)
            THEN [panic |-> FALSE, t |-> [t EXCEPT !.current = Unwrap(touch).position]]
            ELSE [panic |-> FALSE, t |-> t]

\* a tracking step that also releases when the tracked touch is no longer pressed
TrackReleaseOnAbsence(js, inter, ts, win) ==
    LET t == ClearJustPressed(Unwrap(js.touch_state))
        moved == MoveTouch(t, ts, win)
        gone == ~t.is_mouse /\ ~IsSome(GetPressed(ts, t.id))
    IN IF Disengaged(inter) \/ gone THEN [panic |-> FALSE, js |-> Release(js)]
       ELSE [panic |-> moved.panic, js |-> [js EXCEPT !.touch_state = Some(moved.t)]]

\* the part of the loop body that follows the let-else: a TouchState exists
Track(js, inter, ts, win) ==
    LET t == ClearJustPressed(Unwrap(js.touch_state))
        moved == MoveTouch(t, ts, win)
    IN IF Disengaged(inter) THEN [panic |-> FALSE, js |-> Release(js)]
       ELSE [panic |-> moved.panic, js |-> [js EXCEPT !.touch_state = Some(moved.t)]]

\* one iteration of the loop of update_input
UpdateInputOne(js, e, inter, ts, win) ==
    IF ~IsSome(js.touch_state) /\ inter # "Pressed" THEN [panic |-> FALSE, js |-> js]
    ELSE IF ~IsSome(js.touch_state)
         THEN Acquire(js, Translation(e),
                      RectFromCenterSize(Translation(e), NodeSize(e)), ts, win)
    ELSE Track(js, inter, ts, win)

\* the loop of update_input over the entities es; a panic ends it
RECURSIVE UpdateInputLoop(_, _, _, _, _)
UpdateInputLoop(st, es, inter, ts, win) ==
    IF es = <<>> THEN [panic |-> FALSE, state |-> st]
    ELSE LET e == Head(es)
             r == UpdateInputOne(st[e], e, inter[e], ts, win)
             st1 == [st EXCEPT ![e] = r.js]
         IN IF r.panic THEN [panic |-> TRUE, state |-> st1]
            ELSE UpdateInputLoop(st1, Tail(es), inter, ts, win)

----------------------------------------------------------------------------
(* The behaviour hooks of the default ("floating") behaviour *)

Clamp(v, lo, hi) == IF v < lo THEN lo ELSE IF v > hi THEN hi ELSE v

\* delta stage: the clamped displacement from start, normalised by the base
\* half-size, the vertical axis inverted; zero without a TouchState
UpdateAtDeltaStage(js) ==
    IF IsSome(js.touch_state)
    THEN LET d == VSub(Unwrap(js.touch_state).current, Unwrap(js.touch_state).start)
         IN [js EXCEPT !.delta =
                <<Clamp((d[1] * One) \div BaseHalfSize[1], -One, One),
                  -Clamp((d[2] * One) \div BaseHalfSize[2], -One, One)>>]
    ELSE [js EXCEPT !.delta = Vec2Zero]

\* constraint stage: the floating behaviour constrains nothing further
UpdateAtConstraintStage(js) == js

\* general update: on press the base is recentred on the press position
UpdateHook(js) ==
    IF IsSome(js.touch_state) /\ Unwrap(js.touch_state).just_pressed
    THEN [js EXCEPT !.base_offset = VSub(Unwrap(js.touch_state).start, BaseHalfSize)]
    ELSE js

\* the fixed order of the stages of a tick
NextStage(stage) ==
    CASE stage = "update_input" -> "update_behavior_knob_delta"
      [] stage = "update_behavior_knob_delta" -> "update_behavior_constraints"
      [] stage = "update_behavior_constraints" -> "update_behavior"
      [] stage = "update_behavior" -> "update_action"
      [] stage = "update_action" -> "update_fire_events"
      [] stage = "update_fire_events" -> "update_ui"
      [] stage = "update_ui" -> "frame_end"
      [] stage = "frame_end" -> "update_input"

----------------------------------------------------------------------------
(* update_action *)

\* a reduction that checks the TouchState before the release edge
DragActionPressFirst(js) ==
    IF IsSome(js.touch_state)
    THEN IF Unwrap(js.touch_state).just_pressed THEN Some("on_start_drag")
         ELSE Some("on_drag")
    ELSE IF js.just_released THEN Some("on_end_drag")
    ELSE NoneOpt

\* the reduction of a state to a DragAction: release is checked first
DragActionOf(js) ==
    IF js.just_released THEN Some("on_end_drag")
    ELSE IF IsSome(js.touch_state)
         THEN IF Unwrap(js.touch_state).just_pressed THEN Some("on_start_drag")
              ELSE Some("on_drag")
    ELSE NoneOpt

\* the callbacks of one tick, in entity order; the default action is a no-op
RECURSIVE ActionCalls(_, _)
ActionCalls(st, es) ==
    IF es = <<>> THEN <<>>
    ELSE LET e == Head(es)
             a == DragActionOf(st[e])
         IN (IF IsSome(a) THEN <<[id |-> e, call |-> Unwrap(a)]>> ELSE <<>>)
            \o ActionCalls(st, Tail(es))

----------------------------------------------------------------------------
(* update_fire_events *)

Event(e, kind, value, delta) == [id |-> e, event |-> kind, value |-> value, delta |-> delta]

\* an emission that sends Drag before Press
FireEventsDragFirst(e, js) ==
    IF js.just_released THEN <<Event(e, "Up", Vec2Zero, js.delta)>>
    ELSE IF IsSome(js.touch_state)
         THEN <<Event(e, "Drag", Unwrap(js.touch_state).current, js.delta)>>
              \o (IF Unwrap(js.touch_state).just_pressed
                  THEN <<Event(e, "Press", Unwrap(js.touch_state).current, js.delta)>>
                  ELSE <<>>)
    ELSE <<>>

\* an emission that does not skip the rest of the body after Up
FireEventsNoContinue(e, js) ==
    (IF js.just_released THEN <<Event(e, "Up", Vec2Zero, js.delta)>> ELSE <<>>)
    \o (IF IsSome(js.touch_state)
        THEN (IF Unwrap(js.touch_state).just_pressed
              THEN <<Event(e, "Press", Unwrap(js.touch_state).current, js.delta)>>
              ELSE <<>>)
             \o <<Event(e, "Drag", Unwrap(js.touch_state).current, js.delta)>>
        ELSE <<>>)

\* the events sent for one joystick
FireEventsOne(e, js) ==
    IF js.just_released THEN <<Event(e, "Up", Vec2Zero, js.delta)>>
    ELSE IF IsSome(js.touch_state)
         THEN (IF Unwrap(js.touch_state).just_pressed
               THEN <<Event(e, "Press", Unwrap(js.touch_state).current, js.delta)>>
               ELSE <<>>)
              \o <<Event(e, "Drag", Unwrap(js.touch_state).current, js.delta)>>
    ELSE <<>>

RECURSIVE FireEvents(_, _)
FireEvents(st, es) ==
    IF es = <<>> THEN <<>>
    ELSE FireEventsOne(Head(es), st[Head(es)]) \o FireEvents(st, Tail(es))

----------------------------------------------------------------------------
(* update_ui *)

\* Val::Auto and Val::Px(v)
Auto == <<"Auto">>

Px(v) == <<"Px", v>>

\* Node::default(), as far as update_ui writes it
DefaultStyle == [position_type |-> "Relative", left |-> Auto, top |-> Auto]

\* a child visual: its marker component, rendered size and screen position
Child(tag, size) == [tag |-> tag, size |-> size, translation |-> Vec2Zero]

\* the child visuals a joystick can have: two backgrounds, a knob, an untagged one
ChildKinds ==
    {Child("background", <<100, 100>>), Child("background", <<60, 40>>),
     Child("knob", <<20, 20>>), Child("plain", <<20, 20>>)}

\* the visuals of the joysticks of the pipeline: a background and a knob
StandardChildren == <<Child("background", <<100, 100>>), Child("knob", <<20, 20>>)>>

\* Rect::half_size
HalfSize(r) == VHalf(VSub(r.max, r.min))

ChildRect(c) == RectFromCenterSize(c.translation, c.size)

\* joystick_bases.contains(child) and joystick_knobs.contains(child)
IsBase(c) == c.tag = "background"

IsKnob(c) == c.tag = "knob"

\* the first loop over the children: every background goes to base_offset
PlaceBases(js, kids, sts) ==
    [k \in 1..Len(kids) |->
        IF IsBase(kids[k])
        THEN [sts[k] EXCEPT !.position_type = "Absolute",
                            !.left = Px(js.base_offset[1]),
                            !.top = Px(js.base_offset[2])]
        ELSE sts[k]]

\* joystick_base_rect after the first loop: the rectangle of the last background
RECURSIVE BaseRect(_)
BaseRect(kids) ==
    IF kids = <<>> THEN NoneOpt
    ELSE IF IsBase(kids[Len(kids)]) THEN Some(ChildRect(kids[Len(kids)]))
    ELSE BaseRect(SubSeq(kids, 1, Len(kids) - 1))

\* a vertical knob offset that does not mirror delta.y
KnobTopNotMirrored(js, base_half, knob_half) ==
    js.base_offset[2] + base_half[2] + knob_half[2]
        + ((js.delta[2] - One) * base_half[2]) \div One

\* joystick_knob_style.left and joystick_knob_style.top
KnobLeft(js, base_half, knob_half) ==
    js.base_offset[1] + base_half[1] + knob_half[1]
        + ((js.delta[1] - One) * base_half[1]) \div One

KnobTop(js, base_half, knob_half) ==
    js.base_offset[2] + base_half[2] + knob_half[2]
        + ((-js.delta[2] - One) * base_half[2]) \div One

\* the second loop over the children: every knob is placed on the base
PlaceKnobs(js, kids, sts, base_half) ==
    [k \in 1..Len(kids) |->
        IF IsKnob(kids[k])
        THEN [sts[k] EXCEPT !.position_type = "Absolute",
                            !.left = Px(KnobLeft(js, base_half, HalfSize(ChildRect(kids[k])))),
                            !.top = Px(KnobTop(js, base_half, HalfSize(ChildRect(kids[k]))))]
        ELSE sts[k]]

\* the loop body of update_ui: the styles of the children of one joystick
UpdateUiOne(js, kids, sts) ==
    LET based == PlaceBases(js, kids, sts)
    IN IF ~IsSome(BaseRect(kids)) THEN based
       ELSE PlaceKnobs(js, kids, based, HalfSize(Unwrap(BaseRect(kids))))

----------------------------------------------------------------------------
(* Bookkeeping over one engagement, from acquisition to the release tick *)

ZeroTally == [on_start_drag |-> 0, on_end_drag |-> 0, Press |-> 0, Up |-> 0]

Inc(n) == IF n < MaxCount THEN n + 1 ELSE n

\* the events of kind k sent for e, and the calls of kind k made for e
EventsOf(evs, e, k) == SelectSeq(evs, LAMBDA ev : ev.id = e /\ ev.event = k)

CallsOf(cs, e, k) == SelectSeq(cs, LAMBDA c : c.id = e /\ c.call = k)

\* e is engaged in this tick: it holds a TouchState or lost it in this tick
InEngagement(e) == IsSome(state[e].touch_state) \/ prev_touch[e]

RECURSIVE IncBy(_, _)
IncBy(n, k) == IF k = 0 THEN n ELSE IncBy(Inc(n), k - 1)

----------------------------------------------------------------------------
(* The systems of a tick *)

TypeOK ==
    /\ pc \in {"update_input", "update_behavior_knob_delta", "update_behavior_constraints",
               "update_behavior", "update_action", "update_fire_events", "update_ui",
               "frame_end", "panicked"}
    /\ DOMAIN state \subseteq {EntityOrder[k] : k \in 1..Len(EntityOrder)}
    /\ \A e \in DOMAIN state :
         /\ state[e].just_released \in BOOLEAN
         /\ Len(state[e].touch_state) <= 1
         /\ interaction[e] \in Interactions
         /\ prev_touch[e] \in BOOLEAN
    /\ touches \in TouchLists
    /\ window \in Windows

InitWith(spawned) ==
    /\ pc = "update_input"
    /\ state = [e \in spawned |-> DefaultState]
    /\ interaction = [e \in spawned |-> "None"]
    /\ touches = <<>>
    /\ window = Some([cursor_position |-> NoneOpt])
    /\ prev_touch = [e \in spawned |-> FALSE]
    /\ calls = <<>>
    /\ events = <<>>
    /\ tally = [e \in spawned |-> ZeroTally]
    /\ children = [e \in spawned |-> StandardChildren]
    /\ styles = [e \in spawned |-> [k \in 1..Len(StandardChildren) |-> DefaultStyle]]

Init == InitWith({"A"})

\* update_input on a snapshot drawn from the given inputs
UpdateInputFrom(inters, lists, wins) ==
    /\ pc = "update_input"
    /\ \E inter \in [DOMAIN state -> inters], ts \in lists, win \in wins :
         LET r == UpdateInputLoop(state, Entities(state), inter, ts, win)
         IN /\ interaction' = inter
            /\ touches' = ts
            /\ window' = win
            /\ state' = r.state
            /\ pc' = IF r.panic THEN "panicked" ELSE NextStage(pc)
            /\ tally' = [e \in DOMAIN state |->
                           IF ~IsSome(state[e].touch_state) /\ IsSome(r.state[e].touch_state)
                           THEN ZeroTally ELSE tally[e]]
    /\ UNCHANGED <<prev_touch, calls, events, ui>>

UpdateInput == UpdateInputFrom(Interactions, TouchLists, Windows)

UpdateBehaviorKnobDelta ==
    /\ pc = "update_behavior_knob_delta"
    /\ state' = [e \in DOMAIN state |-> UpdateAtDeltaStage(state[e])]
    /\ pc' = NextStage(pc)
    /\ UNCHANGED <<interaction, touches, window, prev_touch, calls, events, tally, ui>>

UpdateBehaviorConstraints ==
    /\ pc = "update_behavior_constraints"
    /\ state' = [e \in DOMAIN state |-> UpdateAtConstraintStage(state[e])]
    /\ pc' = NextStage(pc)
    /\ UNCHANGED <<interaction, touches, window, prev_touch, calls, events, tally, ui>>

UpdateBehavior ==
    /\ pc = "update_behavior"
    /\ state' = [e \in DOMAIN state |-> UpdateHook(state[e])]
    /\ pc' = NextStage(pc)
    /\ UNCHANGED <<interaction, touches, window, prev_touch, calls, events, tally, ui>>

UpdateAction ==
    /\ pc = "update_action"
    /\ calls' = ActionCalls(state, Entities(state))
    /\ tally' = [e \in DOMAIN state |->
                   IF InEngagement(e)
                   THEN [tally[e] EXCEPT
                           !.on_start_drag = IncBy(@, Len(CallsOf(calls', e, "on_start_drag"))),
                           !.on_end_drag = IncBy(@, Len(CallsOf(calls', e, "on_end_drag")))]
                   ELSE tally[e]]
    /\ pc' = NextStage(pc)
    /\ UNCHANGED <<state, interaction, touches, window, prev_touch, events, ui>>

UpdateFireEvents ==
    /\ pc = "update_fire_events"
    /\ events' = FireEvents(state, Entities(state))
    /\ tally' = [e \in DOMAIN state |->
                   IF InEngagement(e)
                   THEN [tally[e] EXCEPT
                           !.Press = IncBy(@, Len(EventsOf(events', e, "Press"))),
                           !.Up = IncBy(@, Len(EventsOf(events', e, "Up")))]
                   ELSE tally[e]]
    /\ pc' = NextStage(pc)
    /\ UNCHANGED <<state, interaction, touches, window, prev_touch, calls, ui>>

\* The host ends the frame.  Before the next tick its input backend and focus
\* system replace the touches, the cursor and every Interaction, and nothing
\* reads this tick's snapshot, callbacks or events again: they are dropped here
\* and update_input draws the next snapshot.
FrameEnd ==
    /\ pc = "frame_end"
    /\ interaction' = [e \in DOMAIN state |-> "None"]
    /\ touches' = <<>>
    /\ window' = Some([cursor_position |-> NoneOpt])
    /\ prev_touch' = [e \in DOMAIN state |-> IsSome(state[e].touch_state)]
    /\ calls' = <<>>
    /\ events' = <<>>
    /\ pc' = NextStage(pc)
    /\ UNCHANGED <<state, tally, ui>>

UpdateUi ==
    /\ pc = "update_ui"
    /\ styles' = [e \in DOMAIN state |-> UpdateUiOne(state[e], children[e], styles[e])]
    /\ pc' = NextStage(pc)
    /\ UNCHANGED <<state, interaction, touches, window, prev_touch, calls, events, tally,
                   children>>

Next ==
    \/ UpdateInput
    \/ UpdateBehaviorKnobDelta
    \/ UpdateBehaviorConstraints
    \/ UpdateBehavior
    \/ UpdateAction
    \/ UpdateFireEvents
    \/ UpdateUi
    \/ FrameEnd

Spec == Init /\ [][Next]_vars

----------------------------------------------------------------------------
(* Two joysticks whose rectangles overlap *)

InitTwo == InitWith({"A", "B"})

\* at most one pressed touch; no primary window, or the cursor outside A
UpdateInputTwo ==
    UpdateInputFrom({"Pressed", "None"},
                    {ts \in TouchLists : Len(ts) <= 1},
                    {NoneOpt, Some([cursor_position |-> Some(<<60, 20>>)])})

NextTwo ==
    \/ UpdateInputTwo
    \/ UpdateBehaviorKnobDelta
    \/ UpdateBehaviorConstraints
    \/ UpdateBehavior
    \/ UpdateAction
    \/ UpdateFireEvents
    \/ UpdateUi
    \/ FrameEnd

SpecTwo == InitTwo /\ [][NextTwo]_vars

----------------------------------------------------------------------------
(* update_ui alone, on any state and any set of child visuals *)

Offsets == {<<0, 0>>, <<-40, -50>>}

Deltas == {<<x, y>> : x \in {-One, 0, One}, y \in {-One, 40, One}}

ChildLists == SeqsUpTo(ChildKinds, MaxChildren)

InitUi ==
    /\ pc = "update_ui"
    /\ \E o \in Offsets, d \in Deltas :
           state = [e \in {"A"} |-> [DefaultState EXCEPT !.base_offset = o, !.delta = d]]
    /\ children \in [{"A"} -> ChildLists]
    /\ styles = [e \in {"A"} |-> [k \in 1..Len(children[e]) |-> DefaultStyle]]
    /\ interaction = [e \in {"A"} |-> "None"]
    /\ touches = <<>>
    /\ window = Some([cursor_position |-> NoneOpt])
    /\ prev_touch = [e \in {"A"} |-> FALSE]
    /\ calls = <<>>
    /\ events = <<>>
    /\ tally = [e \in {"A"} |-> ZeroTally]

NextUi == UpdateUi

SpecUi == InitUi /\ [][NextUi]_vars

----------------------------------------------------------------------------
(* Properties *)

\* update_input finished in this tick
AfterInput == pc \notin {"update_input", "panicked"}

\* update_action finished in this tick
AfterAction == pc \in {"update_fire_events", "update_ui", "frame_end"}

\* every system of the tick has run
TickDone == pc = "frame_end"

EventsFor(e) == SelectSeq(events, LAMBDA ev : ev.id = e)

CallsFor(e) == SelectSeq(calls, LAMBDA c : c.id = e)

Rect(e) == RectFromCenterSize(Translation(e), NodeSize(e))

\* C1: once update_input has run, just_released is set exactly in the tick in
\* which the TouchState was destroyed: it is set only if a TouchState existed
\* when the tick began and is gone now, and it is clear in every other tick.
C1_JustReleasedOneTick ==
    \A e \in DOMAIN state :
        AfterInput =>
            (state[e].just_released <=> (prev_touch[e] /\ ~IsSome(state[e].touch_state)))

\* C2: once update_input has run, the just_pressed flag of a TouchState is set
\* exactly in the tick that created it: set when no TouchState existed as the
\* tick began, clear in every later tick in which the TouchState still exists.
C2_JustPressedOneTick ==
    \A e \in DOMAIN state :
        (AfterInput /\ IsSome(state[e].touch_state)) =>
            (Unwrap(state[e].touch_state).just_pressed <=> ~prev_touch[e])

C2_Witness ==
    /\ pc = "update_behavior_knob_delta"
    /\ prev_touch["A"]
    /\ IsSome(state["A"].touch_state)
    /\ ~Unwrap(state["A"].touch_state).just_pressed

\* C3: when the tick that releases a TouchState is over, the engagement that
\* ends there has produced exactly one Press event, one Up event, one
\* on_start_drag call and one on_end_drag call.
C3_OncePerEngagement ==
    \A e \in DOMAIN state :
        (TickDone /\ prev_touch[e] /\ ~IsSome(state[e].touch_state)) =>
            tally[e] = [on_start_drag |-> 1, on_end_drag |-> 1, Press |-> 1, Up |-> 1]

\* C4: update_action calls on_start_drag for an instance exactly when the
\* instance holds a TouchState whose just_pressed flag is set.
C4_StartDragIffJustPressed ==
    \A e \in DOMAIN state :
        AfterAction =>
            (Len(CallsOf(calls, e, "on_start_drag")) = 1
                <=> (IsSome(state[e].touch_state) /\ Unwrap(state[e].touch_state).just_pressed))

\* C5: update_action makes at most one callback per instance per tick; with
\* just_released set the callback is on_end_drag whatever touch_state holds; with
\* neither just_released nor a TouchState there is no callback.
C5_ReleaseTakesPrecedence ==
    \A e \in DOMAIN state :
        AfterAction =>
            /\ Len(CallsFor(e)) <= 1
            /\ state[e].just_released => CallsFor(e) = <<[id |-> e, call |-> "on_end_drag"]>>
            /\ (~state[e].just_released /\ ~IsSome(state[e].touch_state)) => CallsFor(e) = <<>>
            /\ (~state[e].just_released /\ IsSome(state[e].touch_state)) =>
                   /\ Len(CallsFor(e)) = 1
                   /\ CallsFor(e)[1].call \in {"on_start_drag", "on_drag"}

C5_Witness ==
    /\ AfterAction
    /\ state["A"].just_released
    /\ IsSome(state["A"].touch_state)
    /\ Unwrap(state["A"].touch_state).just_pressed
    /\ CallsFor("A") = <<[id |-> "A", call |-> "on_end_drag"]>>

\* C6: in a tick with a TouchState whose just_pressed flag is set and with
\* just_released clear, update_fire_events sends for the instance exactly a
\* Press event and then a Drag event, both carrying the current position of
\* the TouchState as value and the delta of the state.
C6_PressThenDrag ==
    \A e \in DOMAIN state :
        (TickDone /\ IsSome(state[e].touch_state)
            /\ Unwrap(state[e].touch_state).just_pressed /\ ~state[e].just_released) =>
            EventsFor(e) =
                <<[id |-> e, event |-> "Press",
                   value |-> Unwrap(state[e].touch_state).current, delta |-> state[e].delta],
                  [id |-> e, event |-> "Drag",
                   value |-> Unwrap(state[e].touch_state).current, delta |-> state[e].delta]>>

C6_Witness ==
    /\ TickDone
    /\ IsSome(state["A"].touch_state)
    /\ Unwrap(state["A"].touch_state).just_pressed
    /\ ~state["A"].just_released
    /\ Len(EventsFor("A")) = 2
    /\ EventsFor("A")[1].event = "Press"
    /\ EventsFor("A")[1].value = <<60, 20>>

\* C7: in a tick with just_released set, update_fire_events sends for the
\* instance exactly one event: Up, with the zero vector as value and the delta
\* of the state; it sends no Press and no Drag.
C7_UpOnly ==
    \A e \in DOMAIN state :
        (TickDone /\ state[e].just_released) =>
            EventsFor(e) =
                <<[id |-> e, event |-> "Up", value |-> Vec2Zero, delta |-> state[e].delta]>>

C7_Witness ==
    /\ TickDone
    /\ state["A"].just_released
    /\ prev_touch["A"]
    /\ ~IsSome(state["A"].touch_state)
    /\ EventsFor("A") = <<[id |-> "A", event |-> "Up", value |-> Vec2Zero, delta |-> Vec2Zero]>>

\* an instance that began the tick without a TouchState and reports no press
Idle(e) == ~prev_touch[e] /\ interaction[e] # "Pressed"

\* C8: in a tick in which an instance has no TouchState and reports no active
\* press, update_input leaves its delta and base_offset as they were,
\* update_action makes no callback for it and update_fire_events sends no
\* event for it.
C8_IdleIdempotent ==
    [][\A e \in DOMAIN state :
        /\ (pc = "update_input" /\ pc' # "panicked"
                /\ ~IsSome(state[e].touch_state) /\ interaction'[e] # "Pressed") =>
               /\ state'[e].delta = state[e].delta
               /\ state'[e].base_offset = state[e].base_offset
        /\ (pc = "update_action" /\ Idle(e)) =>
               SelectSeq(calls', LAMBDA c : c.id = e) = <<>>
        /\ (pc = "update_fire_events" /\ Idle(e)) =>
               SelectSeq(events', LAMBDA ev : ev.id = e) = <<>>]_vars

\* the live position of the pointer a TouchState tracks, when it has one
LivePosition(t) ==
    IF t.is_mouse
    THEN IF IsSome(window) THEN Unwrap(window).cursor_position ELSE NoneOpt
    ELSE LET hits == SelectSeq(touches, LAMBDA s : s.id = t.id)
         IN IF hits = <<>> THEN NoneOpt ELSE Some(hits[1].position)

\* C9: a TouchState that existed when the tick began is destroyed by
\* update_input exactly when the instance does not report Pressed; when the
\* press stays active and the live position of the tracked pointer is outside
\* the rectangle, the TouchState is kept with current at the live position and
\* the tick sends no Press event and exactly one Drag event for the instance.
C9_ReleaseBySignalOnly ==
    \A e \in DOMAIN state :
        /\ (AfterInput /\ prev_touch[e]) =>
               (~IsSome(state[e].touch_state) <=> interaction[e] # "Pressed")
        /\ (TickDone /\ prev_touch[e] /\ interaction[e] = "Pressed"
                /\ IsSome(state[e].touch_state)
                /\ IsSome(LivePosition(Unwrap(state[e].touch_state)))
                /\ ~RectContains(Rect(e), Unwrap(LivePosition(Unwrap(state[e].touch_state))))) =>
               /\ Unwrap(state[e].touch_state).current =
                      Unwrap(LivePosition(Unwrap(state[e].touch_state)))
               /\ Len(EventsOf(events, e, "Press")) = 0
               /\ Len(EventsOf(events, e, "Drag")) = 1

\* the first touch sample, in iteration order, whose origin is inside r
FirstInside(r) ==
    LET inside == {k \in 1..Len(touches) : RectContains(r, touches[k].start_position)}
    IN IF inside = {} THEN NoneOpt
       ELSE Some(touches[CHOOSE k \in inside : \A j \in inside : k <= j])

\* the instance began the tick without a TouchState and reports a press, and
\* update_input has just run to its end
PressedWithoutTouch(e) ==
    /\ pc = "update_behavior_knob_delta"
    /\ ~prev_touch[e]
    /\ interaction[e] = "Pressed"

\* the TouchState of e is the one acquisition creates for pointer id at p
AcquiredAt(e, id, p, is_mouse) ==
    /\ IsSome(state[e].touch_state)
    /\ Unwrap(state[e].touch_state) =
           [id |-> id, is_mouse |-> is_mouse, start |-> p, current |-> p,
            just_pressed |-> TRUE]

\* C10 (as claimed): a pressed instance without a TouchState gets one in that
\* tick: from the first touch sample whose origin is inside its rectangle, or
\* else from a synthesized mouse pointer with id 0 at the cursor position.
C10_AcquireAsClaimed ==
    \A e \in DOMAIN state :
        PressedWithoutTouch(e) =>
            IF IsSome(FirstInside(Rect(e)))
            THEN AcquiredAt(e, Unwrap(FirstInside(Rect(e))).id,
                            Unwrap(FirstInside(Rect(e))).position, FALSE)
            ELSE /\ IsSome(window)
                 /\ IsSome(Unwrap(window).cursor_position)
                 /\ AcquiredAt(e, 0, Unwrap(Unwrap(window).cursor_position), TRUE)

\* C10 (amended): a pressed instance without a TouchState acquires the first
\* touch sample whose origin is inside its rectangle, at that sample's live
\* position; with no such sample and a primary window it synthesizes a mouse
\* pointer with id 0 at the cursor position, or at the centre of the instance
\* when the window reports no cursor position; update_input panics, creating
\* no TouchState, only when there is no such sample and no primary window.
C10_Acquire ==
    \A e \in DOMAIN state :
        /\ PressedWithoutTouch(e) =>
               IF IsSome(FirstInside(Rect(e)))
               THEN AcquiredAt(e, Unwrap(FirstInside(Rect(e))).id,
                               Unwrap(FirstInside(Rect(e))).position, FALSE)
               ELSE /\ IsSome(window)
                    /\ AcquiredAt(e, 0,
                                  IF IsSome(Unwrap(window).cursor_position)
                                  THEN Unwrap(Unwrap(window).cursor_position)
                                  ELSE Translation(e),
                                  TRUE)
        /\ (pc = "panicked" /\ ~prev_touch[e] /\ interaction[e] = "Pressed") =>
               /\ ~IsSome(FirstInside(Rect(e)))
               /\ ~IsSome(window)
               /\ ~IsSome(state[e].touch_state)

C10_Witness ==
    /\ PressedWithoutTouch("A")
    /\ ~IsSome(FirstInside(Rect("A")))
    /\ Len(touches) = 2
    /\ window = Some([cursor_position |-> NoneOpt])
    /\ AcquiredAt("A", 0, Translation("A"), TRUE)

\* C11: the press edge and the release edge of an instance are never both
\* set: no instance holds a TouchState with just_pressed set while its
\* just_released is set.
C11_EdgesExclusive ==
    \A e \in DOMAIN state :
        ~(/\ IsSome(state[e].touch_state)
          /\ Unwrap(state[e].touch_state).just_pressed
          /\ state[e].just_released)

\* C12: in a tick in which one instance reports a press and another is idle,
\* update_input, update_action and update_fire_events leave the state of the
\* idle instance as it was, and no callback is made and no event is sent for
\* the idle instance.
C12_IdleNeighbourSilent ==
    [][\A a \in DOMAIN state : \A b \in DOMAIN state \ {a} :
        /\ (pc = "update_input" /\ interaction'[a] = "Pressed"
                /\ ~IsSome(state[b].touch_state) /\ interaction'[b] # "Pressed") =>
               state'[b] = state[b]
        /\ (pc = "update_action" /\ interaction[a] = "Pressed" /\ Idle(b)) =>
               /\ state'[b] = state[b]
               /\ SelectSeq(calls', LAMBDA c : c.id = b) = <<>>
        /\ (pc = "update_fire_events" /\ interaction[a] = "Pressed" /\ Idle(b)) =>
               /\ state'[b] = state[b]
               /\ SelectSeq(events', LAMBDA ev : ev.id = b) = <<>>]_vars

\* C13: no stage of the pipeline aborts: update_input never panics, also when
\* an instance is pressed, no touch matches and there is no primary window.
C13_NoPanic == pc # "panicked"

\* C14: update_ui changes no VirtualJoystickState; for a joystick with a
\* background child it puts every background at base_offset and every knob at
\* base_offset + base half-size + knob half-size + (delta.x - 1) * base
\* half-size horizontally and the same with -delta.y vertically, and leaves
\* the other children alone; for a joystick without a background child it
\* changes no style at all.
C14_PlacementIsPure ==
    [][pc = "update_ui" =>
        /\ state' = state
        /\ \A e \in DOMAIN state :
             LET kids == children[e]
                 bgs == {k \in 1..Len(kids) : kids[k].tag = "background"}
                 last == CHOOSE k \in bgs : \A j \in bgs : j <= k
                 bo == state[e].base_offset
                 d == state[e].delta
             IN IF bgs = {} THEN styles'[e] = styles[e]
                ELSE \A k \in 1..Len(kids) :
                       LET bh == <<kids[last].size[1] \div 2, kids[last].size[2] \div 2>>
                           kh == <<kids[k].size[1] \div 2, kids[k].size[2] \div 2>>
                       IN CASE kids[k].tag = "background" ->
                                 styles'[e][k] =
                                     [position_type |-> "Absolute",
                                      left |-> <<"Px", bo[1]>>, top |-> <<"Px", bo[2]>>]
                            [] kids[k].tag = "knob" ->
                                 styles'[e][k] =
                                     [position_type |-> "Absolute",
                                      left |-> <<"Px", bo[1] + bh[1] + kh[1]
                                                        + ((d[1] - One) * bh[1]) \div One>>,
                                      top |-> <<"Px", bo[2] + bh[2] + kh[2]
                                                       + ((-d[2] - One) * bh[2]) \div One>>]
                            [] OTHER -> styles'[e][k] = styles[e][k]]_vars

C14_Witness ==
    /\ pc = "frame_end"
    /\ state["A"].base_offset = <<0, 0>>
    /\ state["A"].delta = <<One, One>>
    /\ children["A"] = <<Child("background", <<100, 100>>), Child("knob", <<20, 20>>)>>
    /\ styles["A"][1] = [position_type |-> "Absolute", left |-> <<"Px", 0>>, top |-> <<"Px", 0>>]
    /\ styles["A"][2] = [position_type |-> "Absolute", left |-> <<"Px", 60>>, top |-> <<"Px", -40>>]

\* C15: while an instance holds a TouchState, no step changes the id, the
\* is_mouse flag or the start of that TouchState.
C15_NoPointerSwitch ==
    [][\A e \in DOMAIN state :
        (IsSome(state[e].touch_state) /\ IsSome(state'[e].touch_state)) =>
            /\ Unwrap(state'[e].touch_state).id = Unwrap(state[e].touch_state).id
            /\ Unwrap(state'[e].touch_state).is_mouse = Unwrap(state[e].touch_state).is_mouse
            /\ Unwrap(state'[e].touch_state).start = Unwrap(state[e].touch_state).start]_vars

C15_Witness ==
    /\ pc = "update_behavior_knob_delta"
    /\ prev_touch["A"]
    /\ IsSome(state["A"].touch_state)
    /\ ~Unwrap(state["A"].touch_state).is_mouse
    /\ Len(touches) = 2
    /\ touches[1].id # Unwrap(state["A"].touch_state).id
    /\ RectContains(Rect("A"), touches[1].start_position)
    /\ touches[2].id = Unwrap(state["A"].touch_state).id

\* the pointer the TouchState t tracks gives no position in the snapshot ts, win
PointerMissing(t, ts, win) ==
    IF t.is_mouse THEN IsSome(win) /\ ~IsSome(Unwrap(win).cursor_position)
    ELSE \A k \in 1..Len(ts) : ts[k].id # t.id

\* C16: when a pressed instance holds a TouchState whose pointer gives no
\* position in this tick (no pressed touch has its id, or it tracks the mouse
\* and the window has no cursor position), update_input keeps the TouchState
\* and changes nothing of the state but just_pressed, which becomes false.
C16_SoftMiss ==
    [][\A e \in DOMAIN state :
        (/\ pc = "update_input"
         /\ IsSome(state[e].touch_state)
         /\ interaction'[e] = "Pressed"
         /\ PointerMissing(Unwrap(state[e].touch_state), touches', window')) =>
            /\ pc' # "panicked"
            /\ state'[e] =
                   [state[e] EXCEPT !.touch_state =
                       <<[id |-> Unwrap(state[e].touch_state).id,
                          is_mouse |-> Unwrap(state[e].touch_state).is_mouse,
                          start |-> Unwrap(state[e].touch_state).start,
                          current |-> Unwrap(state[e].touch_state).current,
                          just_pressed |-> FALSE]>>]]_vars

C16_Witness ==
    /\ pc = "update_behavior_knob_delta"
    /\ prev_touch["A"]
    /\ interaction["A"] = "Pressed"
    /\ IsSome(state["A"].touch_state)
    /\ ~Unwrap(state["A"].touch_state).is_mouse
    /\ Len(touches) = 1
    /\ PointerMissing(Unwrap(state["A"].touch_state), touches, window)
    /\ Unwrap(state["A"].touch_state).current # Unwrap(state["A"].touch_state).start
    /\ ~state["A"].just_released

\* C17 (as claimed): a touch-tracked TouchState does not survive a tick whose
\* pressed touches lack its id, and any TouchState is removed, with
\* just_released set, in a tick in which the instance does not report Pressed.
C17_AbsenceDisengages ==
    \A e \in DOMAIN state :
        (AfterInput /\ prev_touch[e]) =>
            /\ (IsSome(state[e].touch_state) /\ ~Unwrap(state[e].touch_state).is_mouse) =>
                   \E k \in 1..Len(touches) : touches[k].id = Unwrap(state[e].touch_state).id
            /\ interaction[e] # "Pressed" =>
                   (~IsSome(state[e].touch_state) /\ state[e].just_released)

\* C17 (amended): an engagement, touch-tracked or mouse-tracked, ends exactly
\* in the tick in which the instance does not report Pressed: then the
\* TouchState is removed and just_released is set; while the instance reports
\* Pressed the TouchState is kept, also when no pressed touch has its id.
C17_SignalDisengages ==
    \A e \in DOMAIN state :
        (AfterInput /\ prev_touch[e]) =>
            IF interaction[e] = "Pressed"
            THEN IsSome(state[e].touch_state)
            ELSE ~IsSome(state[e].touch_state) /\ state[e].just_released

C17_Witness ==
    /\ pc = "update_behavior_knob_delta"
    /\ prev_touch["A"]
    /\ interaction["A"] = "Pressed"
    /\ touches = <<>>
    /\ IsSome(state["A"].touch_state)
    /\ ~Unwrap(state["A"].touch_state).is_mouse

\* a and b both track the pressed touch with the same id
TrackSameTouch(a, b) ==
    /\ IsSome(state[a].touch_state) /\ ~Unwrap(state[a].touch_state).is_mouse
    /\ IsSome(state[b].touch_state) /\ ~Unwrap(state[b].touch_state).is_mouse
    /\ Unwrap(state[a].touch_state).id = Unwrap(state[b].touch_state).id
    /\ \E k \in 1..Len(touches) : touches[k].id = Unwrap(state[a].touch_state).id

\* C18: no pressed touch is tracked by the TouchStates of two different
\* instances at the same time.
C18_TouchTrackedOnce ==
    \A a \in DOMAIN state : \A b \in DOMAIN state \ {a} :
        AfterInput => ~TrackSameTouch(a, b)

\* C19: when the tick is over, update_action has called on_end_drag for an
\* instance iff update_fire_events sent Up for it, on_start_drag iff Press, and
\* on_start_drag or on_drag iff Drag.
C19_StagesAgree ==
    \A e \in DOMAIN state :
        TickDone =>
            /\ (CallsOf(calls, e, "on_end_drag") # <<>>) <=> (EventsOf(events, e, "Up") # <<>>)
            /\ (CallsOf(calls, e, "on_start_drag") # <<>>)
                   <=> (EventsOf(events, e, "Press") # <<>>)
            /\ (CallsOf(calls, e, "on_start_drag") # <<>> \/ CallsOf(calls, e, "on_drag") # <<>>)
                   <=> (EventsOf(events, e, "Drag") # <<>>)

C19_Witness ==
    /\ TickDone
    /\ CallsFor("A") = <<[id |-> "A", call |-> "on_start_drag"]>>
    /\ Len(EventsFor("A")) = 2
    /\ EventsFor("A")[1].event = "Press"
    /\ EventsFor("A")[2].event = "Drag"

====
